---- MODULE Spec2Model ----
(***************************************************************************)
(* Model of tools/windows/msi/create_wxs.py: the walk of an application    *)
(* directory tree by generate_wxs, the identifiers it allocates, the       *)
(* element tree it builds, the shortcut / file-association post-processing *)
(* and the return to the command-line entry point.                         *)
(*                                                                         *)
(* Text is modelled as a sequence of one-character strings, so that        *)
(* sanitize_id, str.lower, os.path.splitext and the f-string               *)
(* concatenations are computed character by character.  A relative path    *)
(* is the sequence of its segments (os.path.join / str.split(os.path.sep)  *)
(* are inverse to each other on names, which never hold a separator).      *)
(***************************************************************************)
EXTENDS Integers, Sequences, FiniteSets, TLC

(* ------------------------------------------------------------------ *)
(* Bounds of the model                                                 *)
(* ------------------------------------------------------------------ *)
\* Largest number of directories below the root of an input tree.
MaxDirs == 3
\* Largest number of files of an input tree.
MaxFiles == 2
\* Largest length of a directory or file name of the trees of SpecNames.
MaxNameLen == 2

(* ------------------------------------------------------------------ *)
(* Characters                                                          *)
(* ------------------------------------------------------------------ *)
UpperLetters ==
  <<"A","B","C","D","E","F","G","H","I","J","K","L","M",
    "N","O","P","Q","R","S","T","U","V","W","X","Y","Z">>

LowerLetters ==
  <<"a","b","c","d","e","f","g","h","i","j","k","l","m",
    "n","o","p","q","r","s","t","u","v","w","x","y","z">>

DigitChars == <<"0","1","2","3","4","5","6","7","8","9">>

Digits == {"0","1","2","3","4","5","6","7","8","9"}

\* The character class [a-zA-Z0-9_] of the regular expression of sanitize_id.
IdChars ==
  {"A","B","C","D","E","F","G","H","I","J","K","L","M",
   "N","O","P","Q","R","S","T","U","V","W","X","Y","Z",
   "a","b","c","d","e","f","g","h","i","j","k","l","m",
   "n","o","p","q","r","s","t","u","v","w","x","y","z",
   "0","1","2","3","4","5","6","7","8","9","_"}

\* str.lower on one character.
LowerChar(c) ==
  IF \E i \in DOMAIN UpperLetters : UpperLetters[i] = c
  THEN LowerLetters[CHOOSE i \in DOMAIN UpperLetters : UpperLetters[i] = c]
  ELSE c

\* str.lower.
Lower(s) == [i \in DOMAIN s |-> LowerChar(s[i])]

\* str(n) for a natural number n: its decimal digits.
RECURSIVE Str(_)
Str(n) ==
  IF n < 10 THEN <<DigitChars[n + 1]>>
  ELSE Str(n \div 10) \o <<DigitChars[(n % 10) + 1]>>

\* str.lstrip(".").
RECURSIVE LStripDot(_)
LStripDot(s) ==
  IF s # <<>> /\ s[1] = "." THEN LStripDot(Tail(s)) ELSE s

(* ------------------------------------------------------------------ *)
(* Literals of the script                                              *)
(* ------------------------------------------------------------------ *)
s_Dir_ == <<"D","i","r","_">>
s_File_ == <<"F","i","l","e","_">>
s_Comp_ == <<"C","o","m","p","_">>
s_id_ == <<"i","d","_">>
s_bin == <<"b","i","n">>
s_mview6_exe == <<"m","v","i","e","w","6",".","e","x","e">>
s_MView6_exe == <<"M","V","i","e","w","6",".","e","x","e">>
s_INSTALLFOLDER_ref == <<"[","I","N","S","T","A","L","L","F","O","L","D","E","R","]">>
s_arg1 == <<" ","\"","%","1","\"">>
s_MView6_dot == <<"M","V","i","e","w","6",".">>
s_file == <<"f","i","l","e">>
s_open_ == <<"o","p","e","n","_">>
s_MView6 == <<"M","V","i","e","w","6">>
s_SourceDir == <<"S","o","u","r","c","e","D","i","r">>
s_resources == <<"r","e","s","o","u","r","c","e","s">>
s_mview6_ico == <<"m","v","i","e","w","6",".","i","c","o">>

Id_TARGETDIR == <<"T","A","R","G","E","T","D","I","R">>
Id_ProgramFilesFolder ==
  <<"P","r","o","g","r","a","m","F","i","l","e","s","F","o","l","d","e","r">>
Id_ProgramMenuFolder ==
  <<"P","r","o","g","r","a","m","M","e","n","u","F","o","l","d","e","r">>
Id_ApplicationProgramsFolder ==
  <<"A","p","p","l","i","c","a","t","i","o","n",
    "P","r","o","g","r","a","m","s","F","o","l","d","e","r">>
Id_INSTALLFOLDER == <<"I","N","S","T","A","L","L","F","O","L","D","E","R">>
Id_ApplicationShortcut ==
  <<"A","p","p","l","i","c","a","t","i","o","n","S","h","o","r","t","c","u","t">>
Id_File_MView6Icon ==
  <<"F","i","l","e","_","M","V","i","e","w","6","I","c","o","n">>
Id_File_MView6 == <<"F","i","l","e","_","M","V","i","e","w","6">>

\* Outcomes of str(uuid.uuid4()).replace("-", ""): 32 hexadecimal digits; the
\* model keeps two short representatives, one starting with a digit.
Uuid4Hex == { <<"4","f","0","a">>, <<"c","9","e","1">> }

(* ------------------------------------------------------------------ *)
(* sanitize_id and the path helpers                                    *)
(* ------------------------------------------------------------------ *)
\* A substitution that replaces spaces and dots only.
ReSubSpacesAndDots(name) ==
  [i \in DOMAIN name |-> IF name[i] \in {" ", "."} THEN "_" ELSE name[i]]

\* re.sub(r"[^a-zA-Z0-9_]", "_", name)
ReSubInvalid(name) ==
  [i \in DOMAIN name |-> IF name[i] \in IdChars THEN name[i] ELSE "_"]

\* Line 51: uuid.uuid4() is called for an empty name only; <<>> stands for
\* "not called".
UuidOutcomes(name) == IF name = <<>> THEN Uuid4Hex ELSE { <<>> }

\* sanitize_id(name); u is the value uuid.uuid4() yields if it is called.
sanitize_id(name, u) ==
  LET n1 == ReSubInvalid(name)
      n2 == IF n1 # <<>> /\ n1[1] \in Digits THEN s_id_ \o n1 ELSE n1
  IN  IF n2 = <<>> THEN s_id_ \o u ELSE n2

\* Index of the last "." of p, 0 when there is none (str.rfind).
RFindDot(p) ==
  LET dots == {i \in DOMAIN p : p[i] = "."}
  IN  IF dots = {} THEN 0 ELSE CHOOSE i \in dots : \A j \in dots : j <= i

\* os.path.splitext(filename)[0]: the name up to its last dot, unless that
\* dot is preceded by dots only (a leading-dot name has no extension).
SplitExtBase(filename) ==
  LET dotIndex == RFindDot(filename)
  IN  IF dotIndex > 0 /\ \E k \in 1..(dotIndex - 1) : filename[k] # "."
      THEN SubSeq(filename, 1, dotIndex - 1)
      ELSE filename

(* ------------------------------------------------------------------ *)
(* Input trees                                                         *)
(* ------------------------------------------------------------------ *)
\* Directory names the trees of Spec draw from: "bin" with a capital, and a
\* name that sanitizes to the former followed by "_1".
DirNames == { <<"B","i","n">>, <<"B","i","n"," ","1">> }

\* File names the trees of Spec draw from: the executable, with an extension
\* in capitals that only str.lower makes match, and a file whose base name
\* is that of the icon record.
FileNames ==
  { <<"M","V","i","e","w","6",".","E","X","E">>,
    <<"M","V","i","e","w","6","I","c","o","n",".","p","n","g">> }

\* One character of each kind sanitize_id, os.path.splitext and str.lower
\* tell apart: a letter, a digit, the underscore, the dot, and a character
\* outside ASCII.
NameChars == {"a", "7", "_", ".", "é"}

\* The sequences over S of length 1..n.
RECURSIVE SeqsUpTo(_, _)
SeqsUpTo(S, n) ==
  IF n = 0 THEN {}
  ELSE LET shorter == SeqsUpTo(S, n - 1)
       IN  {<<c>> : c \in S} \cup shorter \cup
           {Append(w, c) : w \in shorter, c \in S}

\* The names a file system allows over NameChars, of length up to MaxNameLen.
Names == SeqsUpTo(NameChars, MaxNameLen) \ { <<".">>, <<".", ".">> }

\* The sets of directories (relative paths, as sequences of names) of the
\* trees with at most n directories below the root: closed under parent.
RECURSIVE Trees(_)
Trees(n) ==
  IF n = 0 THEN { {} }
  ELSE LET smaller == Trees(n - 1)
       IN  smaller \cup
           UNION { { t \cup {Append(p, nm)} : p \in t \cup {<<>>}, nm \in DirNames } :
                   t \in smaller }

\* A file of the tree: the relative path of its directory and its name.
FileCandidates(t) == [dir : t \cup {<<>>}, name : FileNames]

\* The sets of at most n files placed in the directories of tree t.
RECURSIVE FileSets(_, _)
FileSets(t, n) ==
  IF n = 0 THEN { {} }
  ELSE LET smaller == FileSets(t, n - 1)
       IN  smaller \cup { fs \cup {f} : fs \in smaller, f \in FileCandidates(t) }

\* The sub-directories os.scandir lists for directory p of tree t.
Children(t, p) == { d \in t : Len(d) = Len(p) + 1 /\ SubSeq(d, 1, Len(p)) = p }

\* The orders in which a finite set can be listed.
RECURSIVE Orders(_)
Orders(S) ==
  IF S = {} THEN { <<>> }
  ELSE UNION { { <<x>> \o o : o \in Orders(S \ {x}) } : x \in S }

(* ------------------------------------------------------------------ *)
(* State                                                               *)
(* ------------------------------------------------------------------ *)
VARIABLES
  root_is_dir,        \* os.path.isdir(root_folder)
  dirs,               \* the directories below root_folder (relative paths)
  files,              \* the files of the tree
  pc,                 \* position of the script
  walk_stack,         \* directories os.walk has still to yield
  rel_path,           \* relative path of the directory os.walk yielded last
  filenames,          \* files of that directory not yet processed
  parent_dir_element, \* element the next component is added to
  elems,              \* the element tree: elems[i].parent is the parent of i
  dir_elements,       \* dict: relative path -> Directory element
  component_refs,     \* list of component ids
  exe_component,      \* component of the executable, NoElement for None
  used_file_ids,      \* set of file ids
  file_counter,       \* collision counter
  warned,             \* the missing-executable warning was printed
  output_file,        \* content written to the output path, <<>> if none
  file_count,         \* count the success message reports
  exit_status         \* "running", "0" or "1"

vars ==
  << root_is_dir, dirs, files, pc, walk_stack, rel_path, filenames,
     parent_dir_element, elems, dir_elements, component_refs, exe_component,
     used_file_ids, file_counter, warned, output_file, file_count, exit_status >>

\* None, for a variable that holds an element.
NoElement == 0

\* The root_folder argument, as the first segment of every source path.
root_folder == <<"r","o","o","t">>

(* ------------------------------------------------------------------ *)
(* Element tree                                                        *)
(* ------------------------------------------------------------------ *)
\* ET.SubElement(parent, tag, attrib): the new element is the last of es.
SubElement(es, e) == Append(es, e)

\* Lines 80-154: the fixed skeleton of the document.
Skeleton ==
  << [tag |-> "Wix", parent |-> NoElement],
     [tag |-> "Product", parent |-> 1, Name |-> "MView6"],
     [tag |-> "Package", parent |-> 2],
     [tag |-> "MediaTemplate", parent |-> 2],
     [tag |-> "Icon", parent |-> 2, Id |-> "MView6Icon"],
     [tag |-> "Property", parent |-> 2, Id |-> "ARPPRODUCTICON"],
     [tag |-> "Feature", parent |-> 2, Id |-> "ProductFeature"],
     [tag |-> "Directory", parent |-> 2, Id |-> Id_TARGETDIR, Name |-> s_SourceDir],
     [tag |-> "Directory", parent |-> 8, Id |-> Id_ProgramFilesFolder],
     [tag |-> "Directory", parent |-> 8, Id |-> Id_ProgramMenuFolder],
     [tag |-> "Directory", parent |-> 10, Id |-> Id_ApplicationProgramsFolder,
      Name |-> s_MView6],
     [tag |-> "Directory", parent |-> 9, Id |-> Id_INSTALLFOLDER, Name |-> s_MView6],
     [tag |-> "Component", parent |-> 11, Id |-> Id_ApplicationShortcut, Guid |-> "*"],
     [tag |-> "ComponentRef", parent |-> 7, Id |-> Id_ApplicationShortcut] >>

WithTagId(es, tag, id) ==
  CHOOSE i \in DOMAIN es : es[i].tag = tag /\ es[i].Id = id

feature == CHOOSE i \in DOMAIN Skeleton : Skeleton[i].tag = "Feature"
install_folder == WithTagId(Skeleton, "Directory", Id_INSTALLFOLDER)
app_menu_dir == WithTagId(Skeleton, "Directory", Id_ApplicationProgramsFolder)
shortcut_component == WithTagId(Skeleton, "Component", Id_ApplicationShortcut)

\* create_directory_element(parent_element, dir_name, dir_id)
create_directory_element(es, parent_element, dir_name, dir_id) ==
  SubElement(es, [tag |-> "Directory", parent |-> parent_element,
                  Id |-> dir_id, Name |-> dir_name])

\* create_component_element(parent_element, file_id, relative_path, source_path):
\* the Component is element Len(es) + 1, its File record Len(es) + 2.
create_component_element(es, parent_element, file_id, source_path) ==
  LET c == SubElement(es, [tag |-> "Component", parent |-> parent_element,
                           Id |-> s_Comp_ \o file_id, Guid |-> "*"])
  IN  SubElement(c, [tag |-> "File", parent |-> Len(c), Id |-> file_id,
                     Source |-> source_path, KeyPath |-> "yes"])

(* ------------------------------------------------------------------ *)
(* generate_wxs: the directory loop (lines 175-190)                    *)
(* ------------------------------------------------------------------ *)
\* Lines 179-182: the Id of the directory named part, the i-th (from 0) of
\* the n segments of the path being walked.
DirId(part, i, n, u) ==
  LET dir_id == sanitize_id(s_Dir_ \o part, u)
  IN  IF i > 0 /\ n > 1 THEN dir_id \o <<"_">> \o Str(i) ELSE dir_id

\* A lookup that misses every key and yields the default.
ParentElementDefault(de, current_path, i) == install_folder

\* Lines 184-186: dir_elements.get(dirname(current_path) if i > 0 else "",
\* install_folder).
ParentElement(de, current_path, i) ==
  LET key == IF i > 0 THEN SubSeq(current_path, 1, Len(current_path) - 1) ELSE <<>>
  IN  IF key \in DOMAIN de THEN de[key] ELSE install_folder

\* Lines 175-190 from index i on; st holds elems, dir_elements and
\* parent_dir_element.
RECURSIVE EnsureDirs(_, _, _, _)
EnsureDirs(path_parts, i, st, u) ==
  IF i >= Len(path_parts) THEN st
  ELSE
    LET current_path == SubSeq(path_parts, 1, i + 1)
        part == path_parts[i + 1]
        made ==
          IF current_path \notin DOMAIN st.dir_elements
          THEN LET dir_id == DirId(part, i, Len(path_parts), u)
                   par == ParentElement(st.dir_elements, current_path, i)
                   es == create_directory_element(st.elems, par, part, dir_id)
               IN  [elems |-> es,
                    dir_elements |-> (current_path :> Len(es)) @@ st.dir_elements,
                    parent_dir_element |-> par]
          ELSE st
    IN  EnsureDirs(path_parts, i + 1,
                   [made EXCEPT !.parent_dir_element = made.dir_elements[current_path]],
                   u)

(* ------------------------------------------------------------------ *)
(* generate_wxs: the file loop (lines 193-225)                         *)
(* ------------------------------------------------------------------ *)
\* An allocation that never looks at the ids in use.
UniqueFileIdUnchecked(file_id, base_id, used, counter) ==
  [file_id |-> file_id, file_counter |-> counter]

\* Lines 199-201: the while loop, from file_id with the counter at counter.
RECURSIVE UniqueFileId(_, _, _, _)
UniqueFileId(file_id, base_id, used, counter) ==
  IF file_id \in used
  THEN UniqueFileId(s_File_ \o base_id \o <<"_">> \o Str(counter), base_id, used,
                    counter + 1)
  ELSE [file_id |-> file_id, file_counter |-> counter]

\* Lines 195-201: the id allocated to filename and the counter afterwards.
AllocateFileId(filename, used, counter, u) ==
  LET base_id == sanitize_id(SplitExtBase(filename), u)
  IN  UniqueFileId(s_File_ \o base_id, base_id, used, counter)

\* Lines 217-219: filename.lower() == "mview6.exe" and
\* "bin" in rel_path.lower().split(os.path.sep)
IsExecutable(filename, rp) ==
  /\ Lower(filename) = s_mview6_exe
  /\ \E k \in DOMAIN rp : Lower(rp[k]) = s_bin

\* A reference that, once set, is kept.
NextExeComponentKeepFirst(exe, component, filename, rp) ==
  IF IsExecutable(filename, rp) /\ exe = NoElement THEN component ELSE exe

\* Lines 217-220: the executable reference after the file has been handled.
NextExeComponent(exe, component, filename, rp) ==
  IF IsExecutable(filename, rp) THEN component ELSE exe

\* Line 206: os.path.join(dirpath, filename), as a sequence of segments.
SourcePath(rp, filename) == <<root_folder>> \o rp \o <<filename>>

(* ------------------------------------------------------------------ *)
(* generate_wxs: shortcut and file associations (lines 227-323)        *)
(* ------------------------------------------------------------------ *)
\* Lines 19-34: (extension, content type).
EXTENSIONS ==
  << << <<"j","p","g">>, "image/jpeg" >>,
     << <<"j","p","e","g">>, "image/jpeg" >>,
     << <<"p","n","g">>, "image/png" >>,
     << <<"g","i","f">>, "image/gif" >>,
     << <<"a","v","i","f">>, "image/avif" >>,
     << <<"h","e","i","c">>, "image/heic" >>,
     << <<"w","e","b","p">>, "image/webp" >>,
     << <<"s","v","g">>, "image/svg+xml" >>,
     << <<"s","v","g","z">>, "image/svg+xml" >>,
     << <<"p","d","f">>, "application/pdf" >>,
     << <<"e","p","u","b">>, "application/epub+zip" >> >>

\* Lines 268-273 from entry i on: ext_by_type, in insertion order.
RECURSIVE GroupExtensions(_, _)
GroupExtensions(i, acc) ==
  IF i > Len(EXTENSIONS) THEN acc
  ELSE
    LET ext == LStripDot(Lower(EXTENSIONS[i][1]))
        content_type == EXTENSIONS[i][2]
        at == {k \in DOMAIN acc : acc[k].content_type = content_type}
    IN  IF at = {}
        THEN GroupExtensions(i + 1,
               Append(acc, [content_type |-> content_type, exts |-> <<ext>>]))
        ELSE GroupExtensions(i + 1,
               [acc EXCEPT ![CHOOSE k \in at : TRUE].exts = Append(@, ext)])

ext_by_type == GroupExtensions(1, <<>>)

\* Line 237: the Target of the shortcut.
ShortcutTarget == s_INSTALLFOLDER_ref \o s_bin \o <<"\\">> \o s_MView6_exe

\* Line 320: the command of an association.
AssociationCommand == s_INSTALLFOLDER_ref \o s_bin \o <<"\\">> \o s_MView6_exe \o s_arg1

\* Line 303: the TargetFile of a Verb.
VerbTargetFile == Id_File_MView6

\* Lines 230-265: the three records of the shortcut component.
ShortcutRecords(es) ==
  LET e1 == SubElement(es, [tag |-> "Shortcut", parent |-> shortcut_component,
                            Id |-> "ApplicationStartMenuShortcut",
                            Target |-> ShortcutTarget,
                            WorkingDirectory |-> Id_INSTALLFOLDER])
      e2 == SubElement(e1, [tag |-> "RegistryValue", parent |-> shortcut_component,
                            Root |-> "HKCU", Key |-> "Software\\MView6",
                            Name |-> "installed", Value |-> "1", KeyPath |-> "yes"])
  IN  SubElement(e2, [tag |-> "RemoveFolder", parent |-> shortcut_component,
                      Id |-> "RemoveApplicationProgramsFolder",
                      Directory |-> Id_ApplicationProgramsFolder, On |-> "uninstall"])

\* Lines 293-305 from extension k of the group on, under element prog_id.
RECURSIVE AddExtensions(_, _, _, _)
AddExtensions(es, prog_id, group, k) ==
  IF k > Len(group.exts) THEN es
  ELSE
    LET ext == group.exts[k]
        e1 == SubElement(es, [tag |-> "Extension", parent |-> prog_id, Id |-> ext,
                              ContentType |-> group.content_type])
        e2 == SubElement(e1, [tag |-> "Verb", parent |-> Len(e1),
                              Id |-> s_open_ \o ext, Command |-> "Open",
                              TargetFile |-> VerbTargetFile, Argument |-> "\"%1\""])
    IN  AddExtensions(e2, prog_id, group, k + 1)

\* Lines 281-321 from group g on, under the component exe.
RECURSIVE AddProgIds(_, _, _)
AddProgIds(es, exe, g) ==
  IF g > Len(ext_by_type) THEN es
  ELSE
    LET group == ext_by_type[g]
        first_ext == group.exts[1]
        e1 == SubElement(es, [tag |-> "ProgId", parent |-> exe,
                              Id |-> s_MView6_dot \o first_ext \o s_file,
                              Icon |-> Id_File_MView6Icon])
        e2 == AddExtensions(e1, Len(e1), group, 1)
        e3 == SubElement(e2, [tag |-> "RegistryKey", parent |-> exe, Root |-> "HKCR",
                              Key |-> s_MView6_dot \o first_ext \o s_file])
        e4 == SubElement(e3, [tag |-> "RegistryValue", parent |-> Len(e3),
                              Type |-> "string", Value |-> AssociationCommand])
    IN  AddProgIds(e4, exe, g + 1)

\* Lines 275-321: the icon File record and the associations, under exe.
AssociationRecords(es, exe) ==
  AddProgIds(SubElement(es, [tag |-> "File", parent |-> exe,
                             Id |-> Id_File_MView6Icon,
                             Source |-> <<s_resources, s_mview6_ico>>]),
             exe, 1)

\* A post-processing that fills the shortcut component in either case.
PostProcessedShortcutAlways(es, exe) ==
  IF exe # NoElement
  THEN AssociationRecords(ShortcutRecords(es), exe)
  ELSE ShortcutRecords(es)

\* Lines 228-323: the element tree after the post-processing.
PostProcessed(es, exe) ==
  IF exe # NoElement
  THEN AssociationRecords(ShortcutRecords(es), exe)
  ELSE es

(* ------------------------------------------------------------------ *)
(* Specification                                                       *)
(* ------------------------------------------------------------------ *)
\* The state when the script starts on the tree (ds, fs).
Start(ds, fs) ==
  /\ dirs = ds
  /\ files = fs
  /\ pc = "main"
  /\ walk_stack = <<>>
  /\ rel_path = <<>>
  /\ filenames = {}
  /\ parent_dir_element = NoElement
  /\ elems = <<>>
  /\ dir_elements = <<>>
  /\ component_refs = <<>>
  /\ exe_component = NoElement
  /\ used_file_ids = {}
  /\ file_counter = 1
  /\ warned = FALSE
  /\ output_file = <<>>
  /\ file_count = 0
  /\ exit_status = "running"

\* Every tree of at most MaxDirs directories and MaxFiles files over
\* DirNames and FileNames, or a root that is no directory.
Init ==
  \/ /\ root_is_dir = TRUE
     /\ \E ds \in Trees(MaxDirs) : \E fs \in FileSets(ds, MaxFiles) : Start(ds, fs)
  \/ /\ root_is_dir = FALSE
     /\ Start({}, {})

\* The trees n/n with a file m in the root, in n and in n/n, for all
\* names n and m over NameChars, or a root that is no directory.
InitNames ==
  \/ /\ root_is_dir = TRUE
     /\ \E n \in Names, m \in Names :
          /\ m # n
          /\ Start({<<n>>, <<n, n>>},
                   [dir : {<<>>, <<n>>, <<n, n>>}, name : {m}])
  \/ /\ root_is_dir = FALSE
     /\ Start({}, {})

\* Lines 346-348: the root is not a directory.
MainInvalidRoot ==
  /\ pc = "main"
  /\ ~root_is_dir
  /\ pc' = "exit"
  /\ exit_status' = "1"
  /\ UNCHANGED << root_is_dir, dirs, files, walk_stack, rel_path, filenames,
                  parent_dir_element, elems, dir_elements, component_refs,
                  exe_component, used_file_ids, file_counter, warned, output_file,
                  file_count >>

\* Lines 350-353 and 76-164: generate_wxs is called, builds the skeleton
\* and starts os.walk at the root.
GenerateStart ==
  /\ pc = "main"
  /\ root_is_dir
  /\ pc' = "walk"
  /\ elems' = Skeleton
  /\ dir_elements' = (<<>> :> install_folder)
  /\ component_refs' = <<Id_ApplicationShortcut>>
  /\ exe_component' = NoElement
  /\ used_file_ids' = {}
  /\ file_counter' = 1
  /\ walk_stack' = << <<>> >>
  /\ UNCHANGED << root_is_dir, dirs, files, rel_path, filenames, parent_dir_element,
                  warned, output_file, file_count, exit_status >>

\* Lines 164-190: os.walk yields the next directory (parents before
\* children, siblings in the order of the listing), and the directory loop
\* makes its Directory elements.
WalkDir ==
  /\ pc = "walk"
  /\ filenames = {}
  /\ walk_stack # <<>>
  /\ LET dirpath == Head(walk_stack)
     IN  /\ \E order \in Orders(Children(dirs, dirpath)) :
               walk_stack' = order \o Tail(walk_stack)
         /\ rel_path' = dirpath
         /\ filenames' = {f.name : f \in {g \in files : g.dir = dirpath}}
         /\ \E u \in UuidOutcomes(s_Dir_) :  \* every name passed starts with Dir_
              LET st == EnsureDirs(dirpath, 0,
                          [elems |-> elems, dir_elements |-> dir_elements,
                           parent_dir_element |-> install_folder], u)
              IN  /\ elems' = st.elems
                  /\ dir_elements' = st.dir_elements
                  /\ parent_dir_element' = st.parent_dir_element
  /\ UNCHANGED << root_is_dir, dirs, files, pc, component_refs, exe_component,
                  used_file_ids, file_counter, warned, output_file, file_count,
                  exit_status >>

\* Lines 193-225: one file of the directory yielded last.
ProcessFile ==
  /\ pc = "walk"
  /\ \E filename \in filenames :
     \E u \in UuidOutcomes(SplitExtBase(filename)) :
       LET a == AllocateFileId(filename, used_file_ids, file_counter, u)
           es == create_component_element(elems, parent_dir_element, a.file_id,
                                          SourcePath(rel_path, filename))
           component == Len(es) - 1
           comp_id == s_Comp_ \o a.file_id
       IN  /\ filenames' = filenames \ {filename}
           /\ used_file_ids' = used_file_ids \cup {a.file_id}
           /\ file_counter' = a.file_counter
           /\ exe_component' = NextExeComponent(exe_component, component, filename,
                                                rel_path)
           /\ elems' = SubElement(es, [tag |-> "ComponentRef", parent |-> feature,
                                       Id |-> comp_id])
           /\ component_refs' = Append(component_refs, comp_id)
  /\ UNCHANGED << root_is_dir, dirs, files, pc, walk_stack, rel_path,
                  parent_dir_element, dir_elements, warned, output_file, file_count,
                  exit_status >>

\* Lines 227-336 and 353-354: the walk is over; shortcut and associations,
\* or the warning; the document is written, generate_wxs returns
\* len(component_refs), main binds it to file_count, prints the success
\* message and the script ends with exit status zero.
FinishGenerate ==
  /\ pc = "walk"
  /\ filenames = {}
  /\ walk_stack = <<>>
  /\ elems' = PostProcessed(elems, exe_component)
  /\ warned' = (exe_component = NoElement)
  /\ output_file' = elems'
  /\ file_count' = Len(component_refs)
  /\ pc' = "exit"
  /\ exit_status' = "0"
  /\ UNCHANGED << root_is_dir, dirs, files, walk_stack, rel_path, filenames,
                  parent_dir_element, dir_elements, component_refs, exe_component,
                  used_file_ids, file_counter >>

Next ==
  \/ MainInvalidRoot
  \/ GenerateStart
  \/ WalkDir
  \/ ProcessFile
  \/ FinishGenerate

Spec == Init /\ [][Next]_vars

SpecNames == InitNames /\ [][Next]_vars

(* ------------------------------------------------------------------ *)
(* Vocabulary of the properties                                        *)
(* ------------------------------------------------------------------ *)
\* os.walk has yielded every directory and the last file is processed.
WalkEnded == pc = "walk" /\ walk_stack = <<>> /\ filenames = {}

\* generate_wxs has returned and the script has ended.
GenerateDone == pc = "exit" /\ root_is_dir

Tagged(tag) == {i \in DOMAIN elems : elems[i].tag = tag}

\* The elements of S whose parent is p.
In(S, p) == {i \in S : elems[i].parent = p}

IconSource == <<s_resources, s_mview6_ico>>

\* The File records the file loop made.
WalkedFileRecords == {k \in Tagged("File") : elems[k].Source # IconSource}

\* The Directory elements the walk made.
WalkedDirectories == {i \in Tagged("Directory") : i > Len(Skeleton)}

\* The Component elements other than the shortcut component.
FileComponents == Tagged("Component") \ {shortcut_component}

\* The path of names from INSTALLFOLDER down to Directory element i; a path
\* with an empty name if i does not hang below INSTALLFOLDER by Directory
\* elements only.
RECURSIVE DirPathOf(_)
DirPathOf(i) ==
  IF i = install_folder THEN <<>>
  ELSE IF i <= Len(Skeleton) \/ elems[i].tag # "Directory" THEN << <<>> >>
  ELSE DirPathOf(elems[i].parent) \o <<elems[i].Name>>

\* The files of the tree the executable test of the walk accepts.
ExecutableFiles == {f \in files : IsExecutable(f.name, f.dir)}

\* The components that hold the File record of such a file.
ExecutableComponents ==
  LET sources == {SourcePath(f.dir, f.name) : f \in ExecutableFiles}
  IN  {elems[k].parent : k \in {r \in WalkedFileRecords : elems[r].Source \in sources}}

\* The icon File record, the ProgIds and the RegistryKeys.
AssociationElements ==
  {i \in DOMAIN elems :
     \/ elems[i].tag \in {"ProgId", "RegistryKey"}
     \/ (elems[i].tag = "File" /\ elems[i].Source = IconSource)}

MinOf(S) == CHOOSE x \in S : \A y \in S : x <= y
MaxOf(S) == CHOOSE x \in S : \A y \in S : y <= x

\* Letters, digits and underscores only, not empty, no leading digit.
ValidId(id) ==
  /\ id # <<>>
  /\ \A k \in DOMAIN id : id[k] \in IdChars
  /\ id[1] \notin Digits

\* The segments of a relative path, each followed by a backslash.
RECURSIVE WindowsDir(_)
WindowsDir(path) ==
  IF path = <<>> THEN <<>>
  ELSE Head(path) \o <<"\\">> \o WindowsDir(Tail(path))

\* Where the installer puts file f: INSTALLFOLDER, the relative path, the name.
InstalledPath(f) == s_INSTALLFOLDER_ref \o WindowsDir(f.dir) \o f.name

(* ------------------------------------------------------------------ *)
(* C1                                                                  *)
(* ------------------------------------------------------------------ *)
\* C1: any two distinct Directory elements of the document, the five fixed
\* ones included, carry different Ids.
C1_DirectoryIdsUnique ==
  LET D == Tagged("Directory")
  IN  \A i \in D : \A j \in D : i # j => elems[i].Id # elems[j].Id

(* ------------------------------------------------------------------ *)
(* C2                                                                  *)
(* ------------------------------------------------------------------ *)
\* C2: any two distinct File records of the document, the icon record
\* included, carry different Ids, and so do any two per-file components.
C2_FileIdsUnique ==
  LET F == Tagged("File")
      C == FileComponents
  IN  /\ \A i \in F : \A j \in F : i # j => elems[i].Id # elems[j].Id
      /\ \A c \in C : \A d \in C : c # d => elems[c].Id # elems[d].Id

(* ------------------------------------------------------------------ *)
(* C3                                                                  *)
(* ------------------------------------------------------------------ *)
\* C3: every Id of a Directory, File, Component or ComponentRef element,
\* every id in used_file_ids and every id in component_refs is made of
\* ASCII letters, digits and underscores, is not empty and does not start
\* with a digit, the depth suffix and the counter suffix included.
C3_IdentifiersValid ==
  /\ \A i \in DOMAIN elems :
        elems[i].tag \in {"Directory", "File", "Component", "ComponentRef"}
          => ValidId(elems[i].Id)
  /\ \A id \in used_file_ids : ValidId(id)
  /\ \A k \in DOMAIN component_refs : ValidId(component_refs[k])

\* A finished run on names with a leading digit and a character outside
\* [a-zA-Z0-9_], in which a directory got the depth suffix and two files
\* got the counter suffix.
C3_Witness ==
  /\ pc = "exit"
  /\ exit_status = "0"
  /\ file_counter > 2
  /\ \E d \in dirs : Len(d) = 2 /\ d[2][1] \in Digits
                     /\ \E k \in DOMAIN d[2] : d[2][k] \notin IdChars
  /\ \E f \in files : f.name[1] \in Digits
                      /\ \E k \in DOMAIN f.name : f.name[k] \notin IdChars \cup {"."}

(* ------------------------------------------------------------------ *)
(* C4                                                                  *)
(* ------------------------------------------------------------------ *)
\* C4: once the walk has ended, every directory of the tree has exactly one
\* Directory element, hanging from the element of its parent directory
\* (INSTALLFOLDER for the root); every file has exactly one File record with
\* its source path, the only File record the walk put into its component,
\* and that component hangs from the element of the file's directory; and
\* there is no other walked Directory element and no other per-file
\* component.
C4_TreeMirrored ==
  (WalkEnded \/ GenerateDone) =>
    LET D == WalkedDirectories \cup {install_folder}
        path == [i \in D |-> DirPathOf(i)]
        ElementsOf(d) == {i \in D : path[i] = d}
        F == Tagged("File")
        W == WalkedFileRecords
        C == FileComponents
    IN  /\ \A d \in dirs :
              /\ Cardinality(ElementsOf(d)) = 1
              /\ \A i \in ElementsOf(d) :
                    elems[i].parent \in ElementsOf(SubSeq(d, 1, Len(d) - 1))
        /\ \A i \in WalkedDirectories : path[i] \in dirs
        /\ \A f \in files :
              LET recs == {k \in F : elems[k].Source = SourcePath(f.dir, f.name)}
              IN  /\ Cardinality(recs) = 1
                  /\ \A k \in recs :
                        /\ elems[k].parent \in C
                        /\ In(W, elems[k].parent) = {k}
                        /\ WalkEnded => In(F, elems[k].parent) = {k}
                        /\ elems[elems[k].parent].parent \in ElementsOf(f.dir)
        /\ \A c \in C :
              \E k \in In(W, c) : \E f \in files :
                 elems[k].Source = SourcePath(f.dir, f.name)
        /\ Cardinality(C) = Cardinality(files)

\* The walk has ended on a tree with a file in a directory two levels down
\* and an empty directory.
C4_Witness ==
  /\ WalkEnded
  /\ \E d \in dirs : Len(d) = 2 /\ \E f \in files : f.dir = d
  /\ \E d \in dirs : Children(dirs, d) = {} /\ \A f \in files : f.dir # d

(* ------------------------------------------------------------------ *)
(* C5                                                                  *)
(* ------------------------------------------------------------------ *)
\* C5: when generate_wxs has returned, every ComponentRef is a child of the
\* feature and names exactly one Component, every Component is named by
\* exactly one ComponentRef, the components are the shortcut component and
\* one Comp_<file id> per file, and the count returned equals the number
\* of ComponentRef elements, which is the number of files plus one.
C5_ComponentRefsExact ==
  GenerateDone =>
    LET R == Tagged("ComponentRef")
        C == Tagged("Component")
        W == WalkedFileRecords
    IN  /\ \A r \in R :
              /\ elems[r].parent = feature
              /\ Cardinality({c \in C : elems[c].Id = elems[r].Id}) = 1
        /\ \A c \in C : Cardinality({r \in R : elems[r].Id = elems[c].Id}) = 1
        /\ elems[shortcut_component].Id = Id_ApplicationShortcut
        /\ \A c \in C \ {shortcut_component} :
              \E k \in In(W, c) : elems[c].Id = s_Comp_ \o elems[k].Id
        /\ Cardinality(C) = Cardinality(files) + 1
        /\ file_count = Cardinality(R)
        /\ file_count = Cardinality(files) + 1
        /\ Len(component_refs) = file_count
        /\ \A k \in DOMAIN component_refs : \E r \in R : elems[r].Id = component_refs[k]

\* The script has ended on a tree with two files of the same base name, the
\* second of which got a counter suffix.
C5_Witness ==
  /\ pc = "exit"
  /\ Cardinality(files) = 2
  /\ file_counter > 1
  /\ file_count = 3

(* ------------------------------------------------------------------ *)
(* C6                                                                  *)
(* ------------------------------------------------------------------ *)
\* C6: when generate_wxs has returned for a tree with exactly one file the
\* executable test accepts, the Target of every Shortcut and the command of
\* every association RegistryValue name the installed path of that file.
\* Paths are compared without regard to letter case, as Windows resolves
\* them; the comparison letter by letter fails wherever this one does.
C6_ShortcutTargetsExecutable ==
  (GenerateDone /\ Cardinality(ExecutableFiles) = 1) =>
    LET K == Tagged("RegistryKey")
        V == {v \in Tagged("RegistryValue") : elems[v].parent \in K}
    IN  \A f \in ExecutableFiles :
          /\ \A t \in Tagged("Shortcut") :
                Lower(elems[t].Target) = Lower(InstalledPath(f))
          /\ \A v \in V : Lower(elems[v].Value) = Lower(InstalledPath(f) \o s_arg1)

(* ------------------------------------------------------------------ *)
(* C7                                                                  *)
(* ------------------------------------------------------------------ *)
\* C7: when generate_wxs has returned with an executable detected, the
\* TargetFile of every Verb is the Id of the File record that the file loop
\* made in the executable's component.
C7_VerbTargetsExecutable ==
  (GenerateDone /\ exe_component # NoElement) =>
    \A k \in In(WalkedFileRecords, exe_component) :
       \A v \in Tagged("Verb") : elems[v].TargetFile = elems[k].Id

(* ------------------------------------------------------------------ *)
(* C8                                                                  *)
(* ------------------------------------------------------------------ *)
\* C8: when generate_wxs has returned for a tree without a file the
\* executable test accepts, the document holds no Shortcut, RegistryValue,
\* RemoveFolder, ProgId, Extension, Verb or RegistryKey element and no icon
\* File record; beyond the skeleton it holds the Directory, Component, File
\* and ComponentRef elements of the walk and nothing else (one element per
\* directory, three per file); the warning was printed, the document
\* written is this document, and the script has ended with exit status zero.
C8_MissingExecutable ==
  (GenerateDone /\ ExecutableFiles = {}) =>
    /\ exe_component = NoElement
    /\ \A i \in DOMAIN elems :
          /\ elems[i].tag \notin {"Shortcut", "RegistryValue", "RemoveFolder", "ProgId",
                                  "Extension", "Verb", "RegistryKey"}
          /\ elems[i].tag = "File" => elems[i].Source # IconSource
          /\ i > Len(Skeleton) =>
               elems[i].tag \in {"Directory", "Component", "File", "ComponentRef"}
    /\ SubSeq(elems, 1, Len(Skeleton)) = Skeleton
    /\ Len(elems) = Len(Skeleton) + Cardinality(dirs) + 3 * Cardinality(files)
    /\ Cardinality(WalkedDirectories) = Cardinality(dirs)
    /\ Cardinality(FileComponents) = Cardinality(files)
    /\ Cardinality(Tagged("ComponentRef")) = Cardinality(files) + 1
    /\ warned
    /\ output_file = elems
    /\ exit_status = "0"

\* The script has ended with exit status zero on a tree that holds
\* directories and a file with the executable's name outside any "bin"
\* directory, after the warning.
C8_Witness ==
  /\ pc = "exit"
  /\ exit_status = "0"
  /\ warned
  /\ exe_component = NoElement
  /\ dirs # {}
  /\ \E f \in files : Lower(f.name) = s_mview6_exe
  /\ output_file = elems

(* ------------------------------------------------------------------ *)
(* C9                                                                  *)
(* ------------------------------------------------------------------ *)
\* C9: when generate_wxs has returned, the shortcut component, if it is in
\* the document and referenced from the feature, holds exactly three
\* children: a Shortcut, a RegistryValue and a RemoveFolder.
C9_ShortcutComponentFull ==
  (/\ GenerateDone
   /\ shortcut_component \in Tagged("Component")
   /\ \E r \in In(Tagged("ComponentRef"), feature) :
         elems[r].Id = elems[shortcut_component].Id) =>
    /\ Cardinality(In(DOMAIN elems, shortcut_component)) = 3
    /\ Cardinality(In(Tagged("Shortcut"), shortcut_component)) = 1
    /\ Cardinality(In(Tagged("RegistryValue"), shortcut_component)) = 1
    /\ Cardinality(In(Tagged("RemoveFolder"), shortcut_component)) = 1

(* ------------------------------------------------------------------ *)
(* C10                                                                 *)
(* ------------------------------------------------------------------ *)
\* C10, as claimed: when generate_wxs has returned, the executable
\* reference is the component of the first file, in traversal order, that
\* the executable test accepts, and the icon File record and every ProgId
\* and RegistryKey hang from that component.
C10_FirstMatchKept ==
  GenerateDone =>
    LET X == ExecutableComponents
    IN  X # {} =>
          /\ exe_component = MinOf(X)
          /\ \A i \in AssociationElements : elems[i].parent = MinOf(X)

\* C10, amended: at every point of the walk and after it, the executable
\* reference is the component of the last file processed so far that the
\* executable test accepts (None if there is none yet): every later match
\* replaces it.  When generate_wxs has returned, the icon File record and
\* every ProgId and RegistryKey hang from that one component.
C10_LastMatchWins ==
  (pc = "walk" \/ GenerateDone) =>
    LET X == ExecutableComponents
    IN  /\ exe_component = (IF X = {} THEN NoElement ELSE MaxOf(X))
        /\ \A i \in AssociationElements :
              exe_component # NoElement /\ elems[i].parent = exe_component

\* generate_wxs has returned for a tree with two files the executable test
\* accepts; the associations hang from the component of the second.
C10_Witness ==
  /\ GenerateDone
  /\ Cardinality(ExecutableComponents) = 2
  /\ exe_component = MaxOf(ExecutableComponents)
  /\ exe_component # MinOf(ExecutableComponents)
  /\ \E i \in Tagged("ProgId") : elems[i].parent = exe_component

====
